---------------------------- MODULE Spec2Model ----------------------------
(***************************************************************************)
(* Model of the gas / over-temperature alarm firmware in                   *)
(* src/Task 3/main.cpp: the main loop and the six operations it calls,     *)
(* one action per call, plus the host sending bytes on the serial link.    *)
(*                                                                         *)
(* Input pins are the environment: every operation that reads a pin draws  *)
(* the level it reads, and the record `last` keeps what the most recent    *)
(* operation read and wrote.  Serial output is kept byte for byte.         *)
(***************************************************************************)
EXTENDS Naturals, Sequences, FiniteSets

VARIABLES
    pc,                     \* the call of the main loop that runs next
    alarmState,             \* bool alarmState (main.cpp:28)
    numberOfIncorrectCodes, \* int numberOfIncorrectCodes (main.cpp:29)
    alarmLed,               \* DigitalOut alarmLed (main.cpp:17)
    incorrectCodeLed,       \* DigitalOut incorrectCodeLed (main.cpp:18)
    systemBlockedLed,       \* DigitalOut systemBlockedLed (main.cpp:19)
    elapsed,                \* reportTimer: ms since start() / reset()
    rx,                     \* receive register of uartUsb: NoByte or a byte
    overrun,                \* a byte arrived while rx was full and was dropped
    hazardSampled,          \* gasDetector || overTempDetector as last read
                            \* by alarmActivationUpdate
    last                    \* what the most recent operation read and wrote

vars == <<pc, alarmState, numberOfIncorrectCodes, alarmLed, incorrectCodeLed,
          systemBlockedLed, elapsed, rx, overrun, hazardSampled, last>>

ON  == TRUE
OFF == FALSE

\* reportTimer.read() >= 5.0f, in milliseconds
ReportMs == 5000
\* thread_sleep_for(100)
SleepMs == 100
\* the attempts after which deactivation is refused
MaxIncorrectCodes == 5
\* sizeof(buffer) in sendStatusReport
BufferSize == 128

\* Longest time (ms) the body of one loop iteration takes on top of the sleep.
MaxExecMs == 1

\* Bytes the host sends: the three commands and two bytes that are none.
HostBytes == {"1", "2", "3", "4", "h"}
NoByte == "none"

-----------------------------------------------------------------------------
(* Bytes of the string literals.  CR, LF and NUL stand for the bytes 13, 10 *)
(* and 0; every other byte is the one-character string.                     *)
CR  == "CR"
LF  == "LF"
NUL == "NUL"

\* 'The alarm is activated\r\n'  (main.cpp:123)
MsgAlarmActivated ==
    <<"T","h","e"," ","a","l","a","r","m"," ","i","s"," ","a","c","t","i",
      "v","a","t","e","d",CR,LF>>

\* 'The alarm is not activated\r\n'  (main.cpp:123)
MsgAlarmNotActivated ==
    <<"T","h","e"," ","a","l","a","r","m"," ","i","s"," ","n","o","t"," ",
      "a","c","t","i","v","a","t","e","d",CR,LF>>

\* 'Gas detected!\r\n'  (main.cpp:127)
MsgGasDetected ==
    <<"G","a","s"," ","d","e","t","e","c","t","e","d","!",CR,LF>>

\* 'No gas detected\r\n'  (main.cpp:127)
MsgNoGasDetected ==
    <<"N","o"," ","g","a","s"," ","d","e","t","e","c","t","e","d",CR,LF>>

\* 'Over temperature detected!\r\n'  (main.cpp:131)
MsgOverTemp ==
    <<"O","v","e","r"," ","t","e","m","p","e","r","a","t","u","r","e"," ",
      "d","e","t","e","c","t","e","d","!",CR,LF>>

\* 'Temperature normal\r\n'  (main.cpp:131)
MsgTempNormal ==
    <<"T","e","m","p","e","r","a","t","u","r","e"," ","n","o","r","m","a",
      "l",CR,LF>>

\* 'Available commands:\r\n'  (main.cpp:144)
HelpHeader ==
    <<"A","v","a","i","l","a","b","l","e"," ","c","o","m","m","a","n","d",
      "s",":",CR,LF>>

\* "Press '1' to get the alarm state\r\n"  (main.cpp:145)
HelpLine1 ==
    <<"P","r","e","s","s"," ","'","1","'"," ","t","o"," ","g","e","t"," ",
      "t","h","e"," ","a","l","a","r","m"," ","s","t","a","t","e",CR,LF>>

\* "Press '2' to check gas status\r\n"  (main.cpp:146)
HelpLine2 ==
    <<"P","r","e","s","s"," ","'","2","'"," ","t","o"," ","c","h","e","c",
      "k"," ","g","a","s"," ","s","t","a","t","u","s",CR,LF>>

\* "Press '3' to check temperature status\r\n\r\n"  (main.cpp:147)
HelpLine3 ==
    <<"P","r","e","s","s"," ","'","3","'"," ","t","o"," ","c","h","e","c",
      "k"," ","t","e","m","p","e","r","a","t","u","r","e"," ","s","t","a",
      "t","u","s",CR,LF,CR,LF>>

\* '[WARNING] Gas levels unsafe!\r\n'  (main.cpp:166)
WarnGas ==
    <<"[","W","A","R","N","I","N","G","]"," ","G","a","s"," ","l","e","v",
      "e","l","s"," ","u","n","s","a","f","e","!",CR,LF>>

\* '[WARNING] Temperature too high!\r\n'  (main.cpp:169)
WarnTemp ==
    <<"[","W","A","R","N","I","N","G","]"," ","T","e","m","p","e","r","a",
      "t","u","r","e"," ","t","o","o"," ","h","i","g","h","!",CR,LF>>

\* '\r\n[STATUS REPORT]\r\nAlarm: '  (main.cpp:155)
FmtHead ==
    <<CR,LF,"[","S","T","A","T","U","S"," ","R","E","P","O","R","T","]",CR,
      LF,"A","l","a","r","m",":"," ">>

\* '\r\nGas: '  (main.cpp:155)
FmtGas ==
    <<CR,LF,"G","a","s",":"," ">>

\* '\r\nTemperature: '  (main.cpp:155)
FmtTemp ==
    <<CR,LF,"T","e","m","p","e","r","a","t","u","r","e",":"," ">>

\* '\r\n\r\n'  (main.cpp:155)
FmtTail ==
    <<CR,LF,CR,LF>>

\* 'ON'  (main.cpp:156)
StrON ==
    <<"O","N">>

\* 'OFF'  (main.cpp:156)
StrOFF ==
    <<"O","F","F">>

\* 'Detected'  (main.cpp:157)
StrDetected ==
    <<"D","e","t","e","c","t","e","d">>

\* 'Normal'  (main.cpp:157)
StrNormal ==
    <<"N","o","r","m","a","l">>

\* 'High'  (main.cpp:158)
StrHigh ==
    <<"H","i","g","h">>
-----------------------------------------------------------------------------
Min(x, y) == IF x <= y THEN x ELSE y

\* uartUsb.write(literal, n): the first n bytes of the literal as it lies in
\* memory, that is followed by its terminating NUL.  No call of the program
\* passes n > Len(literal) + 1.
Write(literal, n) == SubSeq(literal \o <<NUL>>, 1, n)

\* snprintf(buffer, size, ...) of the formatted text: the buffer holds at most
\* size - 1 bytes of it and a NUL, the result is the length of the whole text.
Snprintf(size, text) ==
    [buffer |-> SubSeq(text, 1, Min(Len(text), size - 1)) \o <<NUL>>,
     len    |-> Len(text)]

\* uartUsb.write(buffer, len) of a char array
WriteBuffer(buffer, n) == SubSeq(buffer, 1, n)

-----------------------------------------------------------------------------
(* What an operation read and wrote.  A pin the operation did not read is   *)
(* recorded as OFF, a byte it did not read as NoByte.                       *)
Record(op, gas, temp, buttons, byte, out) ==
    [op |-> op, gas |-> gas, temp |-> temp,
     a |-> buttons[1], b |-> buttons[2], c |-> buttons[3], d |-> buttons[4],
     enter |-> buttons[5], byte |-> byte, out |-> out]

NoButtons == <<OFF, OFF, OFF, OFF, OFF>>

\* The levels a pin can show, and those of a pin nobody touches.
Levels == BOOLEAN
Quiet  == {OFF}

\* main() up to the loop: inputsInit, outputsInit, reportTimer.start()
Init ==
    /\ pc = "alarmActivationUpdate"
    /\ alarmState = OFF
    /\ numberOfIncorrectCodes = 0
    /\ alarmLed = OFF
    /\ incorrectCodeLed = OFF
    /\ systemBlockedLed = OFF
    /\ elapsed = 0
    /\ rx = NoByte
    /\ overrun = FALSE
    /\ hazardSampled = FALSE
    /\ last = Record("outputsInit", OFF, OFF, NoButtons, NoByte, <<>>)

-----------------------------------------------------------------------------
\* Activated that looks at the gas detector only
ActivatedGasOnly(alarm, gas, temp) == IF gas THEN ON ELSE alarm

\* Activated without the latch: the alarm follows the sensors
ActivatedFollowsSensors(alarm, gas, temp) == gas \/ temp

\* alarmActivationUpdate: the value of alarmState after the if
Activated(alarm, gas, temp) == IF gas \/ temp THEN ON ELSE alarm

alarmActivationUpdate(L) ==
    /\ pc = "alarmActivationUpdate"
    /\ \E gas \in L, temp \in L :
         /\ alarmState' = Activated(alarmState, gas, temp)
         /\ hazardSampled' = (gas \/ temp)
         /\ last' = Record("alarmActivationUpdate", gas, temp, NoButtons,
                           NoByte, <<>>)
    /\ alarmLed' = alarmState'
    /\ pc' = "alarmDeactivationUpdate"
    /\ UNCHANGED <<numberOfIncorrectCodes, incorrectCodeLed, systemBlockedLed,
                   elapsed, rx, overrun>>

\* CodeEntryOpen with <= for <
CodeEntryOpenOffByOne(n) == n <= MaxIncorrectCodes

\* numberOfIncorrectCodes < 5
CodeEntryOpen(n) == n < MaxIncorrectCodes

\* ClearsIncorrectCode reading the four buttons as released
ClearsIncorrectCodeOnRelease(a, b, c, d, enter) ==
    ~a /\ ~b /\ ~c /\ ~d /\ ~enter

\* aButton && bButton && cButton && dButton && !enterButton
ClearsIncorrectCode(a, b, c, d, enter) == a /\ b /\ c /\ d /\ ~enter

\* CorrectCode that does not look at c and d
CorrectCodeIgnoresCD(a, b, c, d) == a /\ b

\* aButton && bButton && !cButton && !dButton
CorrectCode(a, b, c, d) == a /\ b /\ ~c /\ ~d

\* Deactivation that never sets the lockout indicator (no else branch)
DeactivationNoLockoutLed(st, a, b, c, d, enter) ==
    IF st.numberOfIncorrectCodes < MaxIncorrectCodes
    THEN LET s1 == IF a /\ b /\ c /\ d /\ ~enter
                   THEN [st EXCEPT !.incorrectCodeLed = OFF]
                   ELSE st
         IN  IF enter /\ ~s1.incorrectCodeLed /\ s1.alarmState
             THEN IF a /\ b /\ ~c /\ ~d
                  THEN [s1 EXCEPT !.alarmState = OFF,
                                  !.numberOfIncorrectCodes = 0]
                  ELSE [s1 EXCEPT !.incorrectCodeLed = ON,
                                  !.numberOfIncorrectCodes = @ + 1]
             ELSE s1
    ELSE st

\* Deactivation that evaluates the code while the incorrect-code indicator
\* is on (no !incorrectCodeLed in the second if)
DeactivationNoLedGuard(st, a, b, c, d, enter) ==
    IF st.numberOfIncorrectCodes < MaxIncorrectCodes
    THEN LET s1 == IF a /\ b /\ c /\ d /\ ~enter
                   THEN [st EXCEPT !.incorrectCodeLed = OFF]
                   ELSE st
         IN  IF enter /\ s1.alarmState
             THEN IF a /\ b /\ ~c /\ ~d
                  THEN [s1 EXCEPT !.alarmState = OFF,
                                  !.numberOfIncorrectCodes = 0]
                  ELSE [s1 EXCEPT !.incorrectCodeLed = ON,
                                  !.numberOfIncorrectCodes = @ + 1]
             ELSE s1
    ELSE [st EXCEPT !.systemBlockedLed = ON]

\* Deactivation with the indicator reset placed before the counter test, so
\* that it also runs during lockout
DeactivationClearsWhenBlocked(st, a, b, c, d, enter) ==
    LET s1 == IF a /\ b /\ c /\ d /\ ~enter
              THEN [st EXCEPT !.incorrectCodeLed = OFF]
              ELSE st
    IN  IF s1.numberOfIncorrectCodes < MaxIncorrectCodes
        THEN IF enter /\ ~s1.incorrectCodeLed /\ s1.alarmState
             THEN IF a /\ b /\ ~c /\ ~d
                  THEN [s1 EXCEPT !.alarmState = OFF,
                                  !.numberOfIncorrectCodes = 0]
                  ELSE [s1 EXCEPT !.incorrectCodeLed = ON,
                                  !.numberOfIncorrectCodes = @ + 1]
             ELSE s1
        ELSE [s1 EXCEPT !.systemBlockedLed = ON]

\* alarmDeactivationUpdate on the state st = [alarmState, incorrectCodeLed,
\* systemBlockedLed, numberOfIncorrectCodes] with the buttons as read
Deactivation(st, a, b, c, d, enter) ==
    IF CodeEntryOpen(st.numberOfIncorrectCodes)
    THEN LET s1 == IF ClearsIncorrectCode(a, b, c, d, enter)
                   THEN [st EXCEPT !.incorrectCodeLed = OFF]
                   ELSE st
         IN  IF enter /\ ~s1.incorrectCodeLed /\ s1.alarmState
             THEN IF CorrectCode(a, b, c, d)
                  THEN [s1 EXCEPT !.alarmState = OFF,
                                  !.numberOfIncorrectCodes = 0]
                  ELSE [s1 EXCEPT !.incorrectCodeLed = ON,
                                  !.numberOfIncorrectCodes = @ + 1]
             ELSE s1
    ELSE [st EXCEPT !.systemBlockedLed = ON]

alarmDeactivationUpdate(L) ==
    /\ pc = "alarmDeactivationUpdate"
    /\ \E a \in L, b \in L, c \in L, d \in L, enter \in L :
         LET st == [alarmState |-> alarmState,
                    incorrectCodeLed |-> incorrectCodeLed,
                    systemBlockedLed |-> systemBlockedLed,
                    numberOfIncorrectCodes |-> numberOfIncorrectCodes]
             s2 == Deactivation(st, a, b, c, d, enter)
         IN  /\ alarmState' = s2.alarmState
             /\ incorrectCodeLed' = s2.incorrectCodeLed
             /\ systemBlockedLed' = s2.systemBlockedLed
             /\ numberOfIncorrectCodes' = s2.numberOfIncorrectCodes
             /\ last' = Record("alarmDeactivationUpdate", OFF, OFF,
                               <<a, b, c, d, enter>>, NoByte, <<>>)
    /\ pc' = "uartTask"
    /\ UNCHANGED <<alarmLed, elapsed, rx, overrun, hazardSampled>>

-----------------------------------------------------------------------------
\* AlarmReplyLen counting the text without its CR LF
AlarmReplyLenNoCRLF(alarm) == IF alarm THEN 22 ELSE 26

\* the byte counts uartTask passes to write
AlarmReplyLen(alarm) == IF alarm THEN 24 ELSE 28
GasReplyLen(gas)     == IF gas THEN 15 ELSE 18
TempReplyLen(temp)   == IF temp THEN 28 ELSE 20

\* availableCommands: its four writes
availableCommands ==
    << Write(HelpHeader, 21), Write(HelpLine1, 33),
       Write(HelpLine2, 32), Write(HelpLine3, 41) >>

\* UartReply with no default case: an unknown byte is read and not answered
UartReplyNoDefault(receivedChar, alarm, gas, temp) ==
    CASE receivedChar = "1" ->
           << Write(IF alarm THEN MsgAlarmActivated ELSE MsgAlarmNotActivated,
                    IF alarm THEN 24 ELSE 28) >>
      [] receivedChar = "2" ->
           << Write(IF gas THEN MsgGasDetected ELSE MsgNoGasDetected,
                    IF gas THEN 15 ELSE 18) >>
      [] receivedChar = "3" ->
           << Write(IF temp THEN MsgOverTemp ELSE MsgTempNormal,
                    IF temp THEN 28 ELSE 20) >>
      [] OTHER -> <<>>

\* the switch of uartTask: the writes made for receivedChar
UartReply(receivedChar, alarm, gas, temp) ==
    CASE receivedChar = "1" ->
           << Write(IF alarm THEN MsgAlarmActivated ELSE MsgAlarmNotActivated,
                    AlarmReplyLen(alarm)) >>
      [] receivedChar = "2" ->
           << Write(IF gas THEN MsgGasDetected ELSE MsgNoGasDetected,
                    GasReplyLen(gas)) >>
      [] receivedChar = "3" ->
           << Write(IF temp THEN MsgOverTemp ELSE MsgTempNormal,
                    TempReplyLen(temp)) >>
      [] OTHER -> availableCommands

\* uartTask when uartUsb.readable() is false
uartTaskIdle ==
    /\ pc = "uartTask"
    /\ rx = NoByte
    /\ last' = Record("uartTask", OFF, OFF, NoButtons, NoByte, <<>>)
    /\ pc' = "reportCheck"
    /\ UNCHANGED <<alarmState, numberOfIncorrectCodes, alarmLed,
                   incorrectCodeLed, systemBlockedLed, elapsed, rx, overrun,
                   hazardSampled>>

\* uartTask when a byte is waiting: read it and answer
uartTaskRead(L) ==
    /\ pc = "uartTask"
    /\ rx # NoByte
    /\ \E gas \in L, temp \in L :
         LET g == IF rx = "2" THEN gas ELSE OFF
             t == IF rx = "3" THEN temp ELSE OFF
         IN  last' = Record("uartTask", g, t, NoButtons, rx,
                            UartReply(rx, alarmState, g, t))
    /\ rx' = NoByte
    /\ overrun' = FALSE
    /\ pc' = "reportCheck"
    /\ UNCHANGED <<alarmState, numberOfIncorrectCodes, alarmLed,
                   incorrectCodeLed, systemBlockedLed, elapsed, hazardSampled>>

-----------------------------------------------------------------------------
\* StatusText with the gas and temperature arguments exchanged
StatusTextSwapped(alarm, gas, temp) ==
    FmtHead \o (IF alarm THEN StrON ELSE StrOFF) \o
    FmtGas  \o (IF temp THEN StrDetected ELSE StrNormal) \o
    FmtTemp \o (IF gas THEN StrHigh ELSE StrNormal) \o FmtTail

\* the text snprintf formats in sendStatusReport
StatusText(alarm, gas, temp) ==
    FmtHead \o (IF alarm THEN StrON ELSE StrOFF) \o
    FmtGas  \o (IF gas THEN StrDetected ELSE StrNormal) \o
    FmtTemp \o (IF temp THEN StrHigh ELSE StrNormal) \o FmtTail

\* sendStatusReport: its one write
StatusReport(alarm, gas, temp) ==
    LET r == Snprintf(BufferSize, StatusText(alarm, gas, temp))
    IN  << WriteBuffer(r.buffer, r.len) >>

\* ReportDue with > for >=
ReportDueStrict(t) == t > ReportMs

\* reportTimer.read() >= 5.0f
ReportDue(t) == t >= ReportMs

\* main: the timer is below 5.0, no report
reportSkip ==
    /\ pc = "reportCheck"
    /\ ~ReportDue(elapsed)
    /\ last' = Record("reportCheck", OFF, OFF, NoButtons, NoByte, <<>>)
    /\ pc' = "sendWarningIfNeeded"
    /\ UNCHANGED <<alarmState, numberOfIncorrectCodes, alarmLed,
                   incorrectCodeLed, systemBlockedLed, elapsed, rx, overrun,
                   hazardSampled>>

\* main: sendStatusReport(); reportTimer.reset();
sendStatusReport(L) ==
    /\ pc = "reportCheck"
    /\ ReportDue(elapsed)
    /\ \E gas \in L, temp \in L :
         last' = Record("sendStatusReport", gas, temp, NoButtons, NoByte,
                        StatusReport(alarmState, gas, temp))
    /\ elapsed' = 0
    /\ pc' = "sendWarningIfNeeded"
    /\ UNCHANGED <<alarmState, numberOfIncorrectCodes, alarmLed,
                   incorrectCodeLed, systemBlockedLed, rx, overrun,
                   hazardSampled>>

\* Warnings with the second if turned into an else-if
WarningsElseIf(gas, temp) ==
    IF gas THEN << Write(WarnGas, 29) >>
    ELSE IF temp THEN << Write(WarnTemp, 33) >> ELSE <<>>

\* sendWarningIfNeeded: its writes
Warnings(gas, temp) ==
    (IF gas THEN << Write(WarnGas, 29) >> ELSE <<>>) \o
    (IF temp THEN << Write(WarnTemp, 33) >> ELSE <<>>)

\* sendWarningIfNeeded that also turns the alarm on when it warns
sendWarningSetsAlarm(L) ==
    /\ pc = "sendWarningIfNeeded"
    /\ \E gas \in L, temp \in L :
         /\ last' = Record("sendWarningIfNeeded", gas, temp, NoButtons,
                           NoByte, Warnings(gas, temp))
         /\ alarmState' = (alarmState \/ gas \/ temp)
    /\ pc' = "thread_sleep_for"
    /\ UNCHANGED <<numberOfIncorrectCodes, alarmLed, incorrectCodeLed,
                   systemBlockedLed, elapsed, rx, overrun, hazardSampled>>

sendWarningIfNeeded(L) ==
    /\ pc = "sendWarningIfNeeded"
    /\ \E gas \in L, temp \in L :
         last' = Record("sendWarningIfNeeded", gas, temp, NoButtons, NoByte,
                        Warnings(gas, temp))
    /\ pc' = "thread_sleep_for"
    /\ UNCHANGED <<alarmState, numberOfIncorrectCodes, alarmLed,
                   incorrectCodeLed, systemBlockedLed, elapsed, rx, overrun,
                   hazardSampled>>

-----------------------------------------------------------------------------
\* thread_sleep_for(100): the timer has advanced by the sleep and by the time
\* the body of the iteration took
thread_sleep_for ==
    /\ pc = "thread_sleep_for"
    /\ \E exec \in 0..MaxExecMs : elapsed' = elapsed + SleepMs + exec
    /\ last' = Record("thread_sleep_for", OFF, OFF, NoButtons, NoByte, <<>>)
    /\ pc' = "alarmActivationUpdate"
    /\ UNCHANGED <<alarmState, numberOfIncorrectCodes, alarmLed,
                   incorrectCodeLed, systemBlockedLed, rx, overrun,
                   hazardSampled>>

\* The only fact main reads from the timer is whether 5.0 s have elapsed.
Coarse(t) == IF ReportDue(t) THEN ReportMs ELSE 0

\* thread_sleep_for(100) with the timer kept as Coarse: the sleep either
\* leaves it below the report period or takes it there
thread_sleep_for_coarse ==
    /\ pc = "thread_sleep_for"
    /\ \E t \in {elapsed + SleepMs, ReportMs} : elapsed' = Coarse(t)
    /\ last' = Record("thread_sleep_for", OFF, OFF, NoButtons, NoByte, <<>>)
    /\ pc' = "alarmActivationUpdate"
    /\ UNCHANGED <<alarmState, numberOfIncorrectCodes, alarmLed,
                   incorrectCodeLed, systemBlockedLed, rx, overrun,
                   hazardSampled>>

\* The host sends byte: UnbufferedSerial keeps no queue, the receive register
\* holds one byte and a byte that arrives while it is full is dropped.
HostSend(byte) ==
    /\ IF rx = NoByte
       THEN rx' = byte /\ UNCHANGED overrun
       ELSE overrun' = TRUE /\ UNCHANGED rx
    /\ UNCHANGED <<pc, alarmState, numberOfIncorrectCodes, alarmLed,
                   incorrectCodeLed, systemBlockedLed, elapsed, hazardSampled,
                   last>>

-----------------------------------------------------------------------------
\* One call of the main loop, with every pin free
LoopStep ==
    \/ alarmActivationUpdate(Levels)
    \/ alarmDeactivationUpdate(Levels)
    \/ uartTaskIdle
    \/ uartTaskRead(Levels)
    \/ reportSkip
    \/ sendStatusReport(Levels)
    \/ sendWarningIfNeeded(Levels)
    \/ thread_sleep_for_coarse

Next ==
    \/ LoopStep
    \/ \E byte \in HostBytes : HostSend(byte)

\* The program with every input free and the timer kept as Coarse
Spec == Init /\ [][Next]_vars

\* The loop never stops: no call blocks and the sleep returns
FairSpec == Spec /\ WF_vars(LoopStep)

\* One call of the main loop with no hazard and no button pressed, the timer
\* kept in milliseconds
TimedStep ==
    \/ alarmActivationUpdate(Quiet)
    \/ alarmDeactivationUpdate(Quiet)
    \/ uartTaskIdle
    \/ uartTaskRead(Quiet)
    \/ reportSkip
    \/ sendStatusReport(Quiet)
    \/ sendWarningIfNeeded(Quiet)
    \/ thread_sleep_for

TimedNext ==
    \/ TimedStep
    \/ \E byte \in HostBytes : HostSend(byte)

TimedSpec == Init /\ [][TimedNext]_vars

-----------------------------------------------------------------------------
(* Properties.                                                              *)

\* w carries the text of the line literal: every byte before its final CR LF
HasText(w, literal) ==
    /\ Len(w) >= Len(literal) - 2
    /\ SubSeq(w, 1, Len(literal) - 2) = SubSeq(literal, 1, Len(literal) - 2)

\* the number of writes of out that carry the text of literal
Count(out, literal) ==
    Cardinality({i \in 1..Len(out) : HasText(out[i], literal)})

\* the loop has just run the call it was at
Ran(call) == pc = call /\ pc' # pc

\* C1: at the end of every loop iteration, after sendWarningIfNeeded has run,
\* alarmLed equals alarmState.
C1_LedEqualsAlarmStateAtIterationEnd ==
    pc = "thread_sleep_for" => alarmLed = alarmState

\* C2: the alarm latches.  A hazard read by alarmActivationUpdate sets
\* alarmState, and the only step that ever takes alarmState from true to
\* false is alarmDeactivationUpdate on its correct-code branch: counter < 5,
\* enter pressed, incorrect-code indicator off, a and b pressed, c and d
\* released.
C2_AlarmLatches ==
    [][ /\ Ran("alarmActivationUpdate") /\ (last'.gas \/ last'.temp)
           => alarmState'
        /\ alarmState /\ ~alarmState'
           => /\ Ran("alarmDeactivationUpdate")
              /\ numberOfIncorrectCodes < 5
              /\ ~incorrectCodeLed
              /\ last'.enter /\ last'.a /\ last'.b /\ ~last'.c /\ ~last'.d
      ]_vars

\* the alarm is still on after alarmActivationUpdate read both sensors false
C2_Witness ==
    /\ last.op = "alarmActivationUpdate"
    /\ ~last.gas /\ ~last.temp
    /\ alarmState

\* C3: lockout is permanent.  Once numberOfIncorrectCodes is 5 no step
\* changes it and no step sets alarmState to false.
C3_LockoutPermanent ==
    [][ numberOfIncorrectCodes = 5
        => numberOfIncorrectCodes' = 5 /\ (alarmState => alarmState') ]_vars

\* locked out, alarmDeactivationUpdate has read enter with the correct
\* pattern and the alarm is still on
C3_Witness ==
    /\ numberOfIncorrectCodes = 5
    /\ last.op = "alarmDeactivationUpdate"
    /\ last.enter /\ last.a /\ last.b /\ ~last.c /\ ~last.d
    /\ alarmState

\* C4 as claimed: a report in every window of 5.0 time units, so that never
\* more than 5.0 have passed since the last report (or the start).
C4_ReportInEveryWindow == elapsed <= 5000

\* C4 as amended: the report is emitted at the first check of the timer that
\* reads >= 5.0 and the timer is reset in that same iteration, so reports are
\* at least 5.0 apart and a due timer never survives the check; a check that
\* reads less emits nothing and leaves the timer; uartTask and the bytes the
\* host sends leave the timer alone.
C4_ReportAtFirstDueCheck ==
    [][ /\ Ran("reportCheck")
           => IF elapsed >= 5000
              THEN /\ last'.op = "sendStatusReport"
                   /\ Len(last'.out) = 1
                   /\ elapsed' = 0
              ELSE /\ last'.op = "reportCheck"
                   /\ last'.out = <<>>
                   /\ elapsed' = elapsed
        /\ Ran("uartTask") => elapsed' = elapsed /\ last'.op = "uartTask"
        /\ pc' = pc => elapsed' = elapsed /\ last' = last
        /\ pc' \in {"sendWarningIfNeeded", "thread_sleep_for"}
           => elapsed' < 5000
      ]_vars

\* a report has been emitted and the timer reset while a byte of the host
\* waits in the receive register
C4_Witness ==
    /\ last.op = "sendStatusReport"
    /\ elapsed = 0
    /\ rx # NoByte

\* C5: sendWarningIfNeeded emits one gas warning exactly when it reads gas
\* true and one temperature warning exactly when it reads over-temperature
\* true, nothing else, whatever alarmState and the counter are.
C5_WarningsFollowSensors ==
    last.op = "sendWarningIfNeeded"
    => /\ Count(last.out, WarnGas) = (IF last.gas THEN 1 ELSE 0)
       /\ Count(last.out, WarnTemp) = (IF last.temp THEN 1 ELSE 0)
       /\ Len(last.out) = Count(last.out, WarnGas) + Count(last.out, WarnTemp)

\* both warnings emitted in an iteration whose alarm is off
C5_Witness ==
    /\ last.op = "sendWarningIfNeeded"
    /\ last.gas /\ last.temp
    /\ Len(last.out) = 2
    /\ ~alarmState

\* C6: the answer to '2' is exactly "Gas detected!\r\n" when the gas sensor
\* reads true and exactly "No gas detected\r\n" when it reads false.
C6_GasReplyExact ==
    last.op = "uartTask" /\ last.byte = "2"
    => last.out = << IF last.gas THEN MsgGasDetected ELSE MsgNoGasDetected >>

\* C7: the answer to a byte outside '1', '2', '3' is the four lines of the
\* help text, each write its complete literal.
C7_HelpTextExact ==
    last.op = "uartTask" /\ last.byte \notin {NoByte, "1", "2", "3"}
    => last.out = << HelpHeader, HelpLine1, HelpLine2, HelpLine3 >>

\* C8: the answer to '1' is the complete line for alarmState and the answer
\* to '3' the complete line for the over-temperature sensor as read, CR LF
\* included, and nothing else is written.
C8_AlarmAndTempRepliesExact ==
    /\ last.op = "uartTask" /\ last.byte = "1"
       => last.out = << IF alarmState THEN MsgAlarmActivated
                        ELSE MsgAlarmNotActivated >>
    /\ last.op = "uartTask" /\ last.byte = "3"
       => last.out = << IF last.temp THEN MsgOverTemp ELSE MsgTempNormal >>

\* '1' answered while the alarm is off
C8_Witness ==
    /\ last.op = "uartTask"
    /\ last.byte = "1"
    /\ ~alarmState
    /\ Len(last.out) = 1

\* C9 as claimed: every byte the host sends is consumed, so none is dropped.
C9_NoByteLost == ~overrun

\* C9 as amended: uartTask reads at most one byte per iteration and goes on
\* when there is none; a byte taken into the receive register stays there
\* until uartTask reads it, is read by the next uartTask and is answered by
\* one response (one line for '1', '2', '3', the help text otherwise).
C9_RegisterByteConsumed ==
    /\ [][ /\ Ran("uartTask") /\ rx = NoByte
              => /\ last'.byte = NoByte /\ last'.out = <<>>
                 /\ pc' = "reportCheck"
           /\ Ran("uartTask") /\ rx # NoByte
              => /\ last'.byte = rx /\ rx' = NoByte
                 /\ Len(last'.out) = (IF rx \in {"1", "2", "3"} THEN 1 ELSE 4)
                 /\ pc' = "reportCheck"
           /\ rx # NoByte /\ rx' # rx => Ran("uartTask")
         ]_vars
    /\ \A byte \in HostBytes :
         (rx = byte) ~> (last.op = "uartTask" /\ last.byte = byte)

\* an unknown byte has been read and answered and the next byte has arrived
C9_Witness ==
    /\ last.op = "uartTask"
    /\ last.byte = "h"
    /\ Len(last.out) = 4
    /\ rx = "2"

\* C10: every write of sendWarningIfNeeded and sendStatusReport is its
\* complete CR LF terminated text, no byte missing and none added.
C10_WarningAndReportLinesExact ==
    /\ last.op = "sendWarningIfNeeded"
       => last.out = (IF last.gas THEN << WarnGas >> ELSE <<>>) \o
                     (IF last.temp THEN << WarnTemp >> ELSE <<>>)
    /\ last.op = "sendStatusReport"
       => last.out = << StatusText(alarmState, last.gas, last.temp) >>

\* C11: alarmDeactivationUpdate with the counter below 5, enter pressed, the
\* incorrect-code indicator off and the alarm on evaluates the buttons: a and
\* b pressed with c and d released clears alarmState and the counter, every
\* other pattern lights the indicator, adds 1 to the counter and leaves the
\* alarm on.  With enter not pressed, the indicator on or the alarm off,
\* alarmState and the counter stay as they are.
C11_CodeEvaluation ==
    [][ Ran("alarmDeactivationUpdate")
        => LET attempt == /\ numberOfIncorrectCodes < 5
                          /\ last'.enter
                          /\ ~incorrectCodeLed
                          /\ alarmState
               pattern == last'.a /\ last'.b /\ ~last'.c /\ ~last'.d
           IN  /\ attempt /\ pattern
                  => ~alarmState' /\ numberOfIncorrectCodes' = 0
               /\ attempt /\ ~pattern
                  => /\ incorrectCodeLed'
                     /\ numberOfIncorrectCodes' = numberOfIncorrectCodes + 1
                     /\ alarmState'
               /\ ~last'.enter \/ incorrectCodeLed \/ ~alarmState
                  => /\ alarmState' = alarmState
                     /\ numberOfIncorrectCodes' = numberOfIncorrectCodes
      ]_vars

\* a third wrong code (a, b and c pressed) has just been counted
C11_Witness ==
    /\ last.op = "alarmDeactivationUpdate"
    /\ last.enter /\ last.a /\ last.b /\ last.c /\ ~last.d
    /\ incorrectCodeLed
    /\ numberOfIncorrectCodes = 3
    /\ alarmState

\* C12 as claimed: below 5, alarmDeactivationUpdate that reads the four code
\* buttons released and enter not pressed leaves the incorrect-code indicator
\* off.
C12_ReleaseClearsIndicator ==
    /\ last.op = "alarmDeactivationUpdate"
    /\ ~last.a /\ ~last.b /\ ~last.c /\ ~last.d /\ ~last.enter
    /\ numberOfIncorrectCodes < 5
    => ~incorrectCodeLed

\* C12 as amended: below 5, alarmDeactivationUpdate that reads the four code
\* buttons pressed and enter not pressed leaves the incorrect-code indicator
\* off.
C12_AllPressedClearsIndicator ==
    /\ last.op = "alarmDeactivationUpdate"
    /\ last.a /\ last.b /\ last.c /\ last.d /\ ~last.enter
    /\ numberOfIncorrectCodes < 5
    => ~incorrectCodeLed

\* after four wrong codes the four buttons were read pressed without enter
\* and the indicator is off
C12_Witness ==
    /\ last.op = "alarmDeactivationUpdate"
    /\ last.a /\ last.b /\ last.c /\ last.d /\ ~last.enter
    /\ numberOfIncorrectCodes = 4
    /\ ~incorrectCodeLed

\* C13: the counter is always in 0..5; it changes only in
\* alarmDeactivationUpdate, by +1 on a failed attempt (the indicator goes on,
\* the alarm stays on) or to 0 on a successful one (the alarm goes off), and
\* only from a value below 5.
C13_CounterRange ==
    /\ [](numberOfIncorrectCodes \in 0..5)
    /\ [][ numberOfIncorrectCodes' # numberOfIncorrectCodes
           => /\ Ran("alarmDeactivationUpdate")
              /\ numberOfIncorrectCodes < 5
              /\ \/ /\ numberOfIncorrectCodes' = numberOfIncorrectCodes + 1
                    /\ ~incorrectCodeLed /\ incorrectCodeLed'
                    /\ alarmState /\ alarmState'
                 \/ /\ numberOfIncorrectCodes' = 0
                    /\ alarmState /\ ~alarmState'
         ]_vars

\* the fifth failed attempt has just taken the counter to 5
C13_Witness ==
    /\ last.op = "alarmDeactivationUpdate"
    /\ last.enter /\ ~last.a
    /\ numberOfIncorrectCodes = 5
    /\ ~systemBlockedLed


\* C14: from the sample of alarmActivationUpdate to the end of the iteration,
\* alarmState is true whenever that sample showed gas or over-temperature.
C14_AlarmOnWhileHazardSampled ==
    hazardSampled /\ pc # "alarmActivationUpdate" => alarmState

\* C15: the lockout indicator is latched.  It is off while the counter is
\* below 5, the call of alarmDeactivationUpdate that finds the counter at 5
\* turns it on, nothing else turns it on and nothing turns it off.
C15_LockoutIndicatorLatched ==
    /\ [](numberOfIncorrectCodes < 5 => ~systemBlockedLed)
    /\ [][ /\ Ran("alarmDeactivationUpdate") /\ numberOfIncorrectCodes = 5
              => systemBlockedLed'
           /\ systemBlockedLed => systemBlockedLed'
           /\ ~systemBlockedLed /\ systemBlockedLed'
              => Ran("alarmDeactivationUpdate") /\ numberOfIncorrectCodes = 5
         ]_vars

\* the lockout indicator is on and a later call has read the correct code
C15_Witness ==
    /\ systemBlockedLed
    /\ numberOfIncorrectCodes = 5
    /\ last.op = "alarmDeactivationUpdate"
    /\ last.enter /\ last.a /\ last.b /\ ~last.c /\ ~last.d

\* C16: alarmActivationUpdate never clears alarmState and sets it, with the
\* alarm indicator, whenever it reads gas or over-temperature; so in the
\* iteration after the correct code cleared the alarm (alarmState off, the
\* indicator still on) a hazard that is still read turns the alarm on again.
C16_HazardRetriggersAlarm ==
    [][ Ran("alarmActivationUpdate")
        => /\ alarmState => alarmState'
           /\ last'.gas \/ last'.temp => alarmState' /\ alarmLed'
           /\ ~alarmState /\ alarmLed /\ (last'.gas \/ last'.temp)
              => alarmState'
           /\ ~alarmState /\ ~last'.gas /\ ~last'.temp => ~alarmState'
      ]_vars

\* the correct code has cleared the alarm in an iteration whose sample showed
\* a hazard, and alarmActivationUpdate is the next call
C16_Witness ==
    /\ pc = "alarmActivationUpdate"
    /\ ~alarmState /\ alarmLed
    /\ hazardSampled

\* C17: the status report is the fixed block with Alarm ON iff alarmState,
\* Gas Detected iff the gas sensor reads true and Temperature High iff the
\* over-temperature sensor reads true; the timer is reset in the step that
\* emits the report and in no other step.
C17_ReportContentAndTimerReset ==
    /\ [](last.op = "sendStatusReport"
          => last.out =
               << FmtHead \o (IF alarmState THEN StrON ELSE StrOFF) \o
                  FmtGas \o (IF last.gas THEN StrDetected ELSE StrNormal) \o
                  FmtTemp \o (IF last.temp THEN StrHigh ELSE StrNormal) \o
                  FmtTail >>)
    /\ [][ /\ Ran("reportCheck") /\ last'.op = "sendStatusReport"
              => elapsed' = 0
           /\ elapsed # 0 /\ elapsed' = 0
              => Ran("reportCheck") /\ last'.op = "sendStatusReport"
           /\ elapsed' < elapsed => elapsed' = 0
         ]_vars

\* a report sent with the alarm on, gas normal and temperature high
C17_Witness ==
    /\ last.op = "sendStatusReport"
    /\ alarmState /\ ~last.gas /\ last.temp
    /\ elapsed = 0

\* C18: one held press counts once.  The counter is incremented only by a
\* call that reads enter pressed with the incorrect-code indicator off, and
\* that call leaves the indicator on; a call that reads enter pressed with
\* the indicator on changes neither; the indicator goes off only in a call
\* that reads enter not pressed.
C18_HeldPressCountsOnce ==
    [][ /\ numberOfIncorrectCodes' = numberOfIncorrectCodes + 1
           => /\ Ran("alarmDeactivationUpdate") /\ last'.enter
              /\ ~incorrectCodeLed /\ incorrectCodeLed'
        /\ Ran("alarmDeactivationUpdate") /\ incorrectCodeLed /\ last'.enter
           => /\ numberOfIncorrectCodes' = numberOfIncorrectCodes
              /\ incorrectCodeLed'
        /\ incorrectCodeLed /\ ~incorrectCodeLed'
           => /\ Ran("alarmDeactivationUpdate") /\ ~last'.enter
              /\ numberOfIncorrectCodes' = numberOfIncorrectCodes
      ]_vars

\* enter read pressed with no code button pressed, one failure counted and
\* the indicator on
C18_Witness ==
    /\ last.op = "alarmDeactivationUpdate"
    /\ last.enter /\ ~last.a /\ ~last.b /\ ~last.c /\ ~last.d
    /\ incorrectCodeLed
    /\ numberOfIncorrectCodes = 1

\* C19: with the counter at 5 the alarm is on and the incorrect-code
\* indicator is lit, and every step from such a state leaves the counter at
\* 5, the alarm on and the indicator lit.
C19_LockedOutKeepsAlarmAndIndicator ==
    /\ [](numberOfIncorrectCodes = 5 => alarmState /\ incorrectCodeLed)
    /\ [][ numberOfIncorrectCodes = 5
           => /\ numberOfIncorrectCodes' = 5
              /\ alarmState' /\ incorrectCodeLed' ]_vars

\* locked out, the four buttons were read pressed without enter and the
\* indicator is still lit
C19_Witness ==
    /\ numberOfIncorrectCodes = 5
    /\ systemBlockedLed
    /\ last.op = "alarmDeactivationUpdate"
    /\ last.a /\ last.b /\ last.c /\ last.d /\ ~last.enter
    /\ incorrectCodeLed /\ alarmState

\* C20: reporting is read-only.  uartTask, the report check with
\* sendStatusReport, sendWarningIfNeeded and the arrival of a byte from the
\* host leave alarmState, the counter and the three indicators unchanged.
C20_ReportingReadOnly ==
    [][ \/ Ran("uartTask")
        \/ Ran("reportCheck")
        \/ Ran("sendWarningIfNeeded")
        \/ pc' = pc
        => UNCHANGED <<alarmState, numberOfIncorrectCodes, alarmLed,
                       incorrectCodeLed, systemBlockedLed>> ]_vars

\* '1' answered with the alarm on, two failures counted and the indicator lit
C20_Witness ==
    /\ last.op = "uartTask"
    /\ last.byte = "1"
    /\ last.out = << MsgAlarmActivated >>
    /\ alarmState
    /\ numberOfIncorrectCodes = 2
    /\ incorrectCodeLed

=============================================================================
